---------------------------- MODULE Spec2Model ----------------------------
(***************************************************************************)
(* menpo.math.linalg: the blocked in-place multipliers dot_inplace_left    *)
(* and dot_inplace_right, and the vectorization gateway as_matrix /        *)
(* from_matrix.                                                            *)
(*                                                                         *)
(* Spec    : dot_inplace_left(A, B) followed by                            *)
(*           dot_inplace_right(B.T, A.T), each on its own copy of the      *)
(*           operands, one action per shape check, loop iteration, return. *)
(* SpecVec : as_matrix / from_matrix call chains over lists, generators    *)
(*           and matrices, one action per call prologue, loop iteration,   *)
(*           generator pull and return.                                    *)
(***************************************************************************)
EXTENDS Integers, Sequences, FiniteSets, TLC

\* ------------------------------------------------------------------ bounds
MaxBig == 3
MaxK == 2
MaxSmall == 3
MaxBlock == 4
MaxPoints == 2
MaxDims == 2
MaxItems == 3
MaxLength == 4

\* Value patterns of the input matrices: start + step * (row-major position).
Starts == {-1, 0, 1}
Steps == {1, -2, 0}

None == "None"

Min(x, y) == IF x <= y THEN x ELSE y

\* -------------------------------------------------------- dense matrices
\* An ndarray of shape (r, c): 0-based indices, as in the source.
Matrix(r, c, f(_, _)) ==
    [shape |-> <<r, c>>,
     at |-> [p \in (0 .. r - 1) \X (0 .. c - 1) |-> f(p[1], p[2])]]

Rows(m) == m.shape[1]
Cols(m) == m.shape[2]

\* np.arange(r * c).reshape(r, c) * step + start
Arange(r, c, start, step) ==
    Matrix(r, c, LAMBDA x, y : start + step * (x * c + y))

\* m.T
Transpose(m) == Matrix(Cols(m), Rows(m), LAMBDA x, y : m.at[<<y, x>>])

RECURSIVE Inner(_, _, _, _, _)
\* sum over t < n of x[p, t] * y[t, q]
Inner(x, y, p, q, n) ==
    IF n = 0 THEN 0
    ELSE Inner(x, y, p, q, n - 1) + x.at[<<p, n - 1>>] * y.at[<<n - 1, q>>]

\* x.dot(y): a freshly allocated array
Dot(x, y) ==
    Matrix(Rows(x), Cols(y), LAMBDA p, q : Inner(x, y, p, q, Cols(x)))

\* m[i:j] : the slice bounds are clipped to the array, as numpy does
SliceRows(m, i, j) ==
    LET lo == Min(i, Rows(m))
        hi == Min(j, Rows(m))
    IN  Matrix(hi - lo, Cols(m), LAMBDA x, y : m.at[<<lo + x, y>>])

\* m[:, i:j]
SliceCols(m, i, j) ==
    LET lo == Min(i, Cols(m))
        hi == Min(j, Cols(m))
    IN  Matrix(Rows(m), hi - lo, LAMBDA x, y : m.at[<<x, lo + y>>])

\* m[r0:r1, c0:c1] = v
AssignRegion(m, r0, r1, c0, c1, v) ==
    LET rlo == Min(r0, Rows(m))
        rhi == Min(r1, Rows(m))
        clo == Min(c0, Cols(m))
        chi == Min(c1, Cols(m))
    IN  [m EXCEPT !.at =
            [p \in DOMAIN m.at |->
                IF /\ rlo <= p[1] /\ p[1] < rhi
                   /\ clo <= p[2] /\ p[2] < chi
                THEN v.at[<<p[1] - rlo, p[2] - clo>>]
                ELSE m.at[p]]]

\* ------------------------------------------------- dot_inplace_left / right
VARIABLES
    A, B,          \* the caller's matrices, never written
    block_size,
    la, lb,        \* dot_inplace_left's operands a, b (a copy of A, of B)
    ra, rb,        \* dot_inplace_right's operands a, b (a copy of B.T, of A.T)
    blocks,        \* the index ranges [lo, hi) the running call has stored
    lerr, lret,    \* dot_inplace_left: the error raised, <<the array returned>>
    rerr, rret,    \* dot_inplace_right: the same
    i,             \* the loop variable of the running call
    pc             \* the position of the running call

VARIABLES
    scenario,      \* the chain of calls the caller makes
    vectorizables, \* as_matrix's argument: [kind, items], a list or an iterator
    length_arg,    \* as_matrix's length argument: <<>> is None, <<L>> is L
    verbose,
    return_template,
    rest,          \* the items as_matrix's source has not yielded yet
    length,        \* as_matrix's local length
    template,      \* <<>> until as_matrix has taken its template
    data,          \* <<>> until as_matrix has allocated its matrix
    signals,       \* the fractions sent to the progress sink, in order
    amerr, amret,  \* as_matrix: the error raised, the value returned
    matrix,        \* from_matrix's argument
    fm_template,   \* from_matrix's argument, <<template>>
    as_generator,
    cursor,        \* the next row of from_matrix's generator expression
    decoded,       \* the entities template.from_vector has built, in order
    out,           \* the entities the caller of from_matrix has received
    pulls          \* the items the caller has pulled from the lazy sequence

dotvars == <<A, B, block_size, la, lb, ra, rb, blocks, lerr, lret, rerr, rret>>

vecvars == <<scenario, vectorizables, length_arg, verbose, return_template,
             rest, length, template, data, signals, amerr, amret, matrix,
             fm_template, as_generator, cursor, decoded, out, pulls>>

vars == <<dotvars, vecvars, i, pc>>

\* the capacity check n_small > k_a left out
LeftShapeErrorInnerOnly(a, b) ==
    IF a.shape[2] # b.shape[1] THEN "inner" ELSE None

\* lines 31-37: the two shape checks of dot_inplace_left
LeftShapeError(a, b) ==
    LET n_big == a.shape[1]
        k_a == a.shape[2]
        k_b == b.shape[1]
        n_small == b.shape[2]
    IN  IF k_a # k_b THEN "inner"
        ELSE IF n_small > k_a THEN "capacity"
        ELSE None

\* lines 71-77: the two shape checks of dot_inplace_right
RightShapeError(a, b) ==
    LET n_small == a.shape[1]
        k_a == a.shape[2]
        k_b == b.shape[1]
        n_big == b.shape[2]
    IN  IF k_a # k_b THEN "inner"
        ELSE IF n_small > k_b THEN "capacity"
        ELSE None

BlockEndOverlap(ii, bs) == ii + bs + 1

\* line 39: j = i + block_size
BlockEnd(ii, bs) == ii + bs

\* the block product taken from the first rows of a instead of rows i:j
LeftBlockStoreNoOffset(a, b, ii, j) ==
    AssignRegion(a, ii, j, 0, Cols(b), Dot(SliceRows(a, 0, j - ii), b))

\* the block product stored over the whole rows i:j, zero beyond n_small
LeftBlockStoreWholeRows(a, b, ii, j) ==
    LET c == Dot(SliceRows(a, ii, j), b)
    IN  AssignRegion(a, ii, j, 0, Cols(a),
            Matrix(Rows(c), Cols(a),
                LAMBDA x, y : IF y < Cols(c) THEN c.at[<<x, y>>] ELSE 0))

\* line 40: a[i:j, :n_small] = a[i:j].dot(b)
LeftBlockStore(a, b, ii, j) ==
    AssignRegion(a, ii, j, 0, Cols(b), Dot(SliceRows(a, ii, j), b))

\* line 80: b[:n_small, i:j] = a.dot(b[:, i:j])
RightBlockStore(a, b, ii, j) ==
    AssignRegion(b, 0, Rows(a), ii, j, Dot(a, SliceCols(b, ii, j)))

\* line 41: return a[:, :n_small]
LeftView(a, n_small) == SliceCols(a, 0, n_small)

RightViewWhole(b, n_small) == b

\* line 81: return b[:n_small]
RightView(b, n_small) == SliceRows(b, 0, n_small)

DotInit ==
    /\ \E n_big \in 0 .. MaxBig, k_a \in 1 .. MaxK, k_b \in 1 .. MaxK,
          n_small \in 1 .. MaxSmall, sa \in Starts, ta \in Steps,
          sb \in Starts, tb \in Steps :
          /\ A = Arange(n_big, k_a, sa, ta)
          /\ B = Arange(k_b, n_small, sb, tb)
    /\ block_size \in 1 .. MaxBlock
    /\ la = A
    /\ lb = B
    /\ ra = Transpose(B)
    /\ rb = Transpose(A)
    /\ i = 0
    /\ blocks = <<>>
    /\ lerr = None
    /\ lret = <<>>
    /\ rerr = None
    /\ rret = <<>>
    /\ pc = "left_check"

\* dot_inplace_left, lines 31-37: raise, or enter the loop
LeftCheck ==
    /\ pc = "left_check"
    /\ lerr' = LeftShapeError(la, lb)
    /\ pc' = IF lerr' # None THEN "right_check" ELSE "left_loop"
    /\ i' = 0
    /\ UNCHANGED <<A, B, block_size, la, lb, ra, rb, blocks, lret, rerr, rret>>
    /\ UNCHANGED vecvars

\* dot_inplace_left, lines 38-40: one iteration of range(0, n_big, block_size)
LeftBlock ==
    /\ pc = "left_loop"
    /\ i < Rows(la)
    /\ LET j == BlockEnd(i, block_size)
       IN  /\ la' = LeftBlockStore(la, lb, i, j)
           /\ blocks' = Append(blocks, <<Min(i, Rows(la)), Min(j, Rows(la))>>)
    /\ i' = i + block_size
    /\ UNCHANGED <<A, B, block_size, lb, ra, rb, lerr, lret, rerr, rret, pc>>
    /\ UNCHANGED vecvars

\* dot_inplace_left, line 41: the range is exhausted, return the view
LeftReturn ==
    /\ pc = "left_loop"
    /\ i >= Rows(la)
    /\ lret' = <<LeftView(la, Cols(lb))>>
    /\ pc' = "right_check"
    /\ UNCHANGED <<A, B, block_size, la, lb, ra, rb, i, blocks, lerr, rerr, rret>>
    /\ UNCHANGED vecvars

\* dot_inplace_right, lines 71-77
RightCheck ==
    /\ pc = "right_check"
    /\ rerr' = RightShapeError(ra, rb)
    /\ pc' = IF rerr' # None THEN "done" ELSE "right_loop"
    /\ i' = 0
    /\ blocks' = <<>>
    /\ UNCHANGED <<A, B, block_size, la, lb, ra, rb, lerr, lret, rret>>
    /\ UNCHANGED vecvars

\* dot_inplace_right, lines 78-80
RightBlock ==
    /\ pc = "right_loop"
    /\ i < Cols(rb)
    /\ LET j == BlockEnd(i, block_size)
       IN  /\ rb' = RightBlockStore(ra, rb, i, j)
           /\ blocks' = Append(blocks, <<Min(i, Cols(rb)), Min(j, Cols(rb))>>)
    /\ i' = i + block_size
    /\ UNCHANGED <<A, B, block_size, la, lb, ra, lerr, lret, rerr, rret, pc>>
    /\ UNCHANGED vecvars

\* dot_inplace_right, line 81
RightReturn ==
    /\ pc = "right_loop"
    /\ i >= Cols(rb)
    /\ rret' = <<RightView(rb, Rows(ra))>>
    /\ pc' = "done"
    /\ UNCHANGED <<A, B, block_size, la, lb, ra, rb, i, blocks, lerr, lret, rerr>>
    /\ UNCHANGED vecvars

DotNext ==
    \/ LeftCheck
    \/ LeftBlock
    \/ LeftReturn
    \/ RightCheck
    \/ RightBlock
    \/ RightReturn



\* --------------------------------------------------- vectorizable entities
\* The Vectorizable contract, for an entity holding an (n_points, n_dims)
\* array of coordinates: the encoding is the array flattened in row-major
\* order, and from_vector gives the vector the shape of the template.

\* a 1-d ndarray of n elements
Vector(n, f(_)) == [shape |-> <<n>>, at |-> [k \in 0 .. n - 1 |-> f(k)]]

n_parameters(e) == Rows(e) * Cols(e)

as_vector(e) ==
    Vector(n_parameters(e), LAMBDA k : e.at[<<k \div Cols(e), k % Cols(e)>>])

from_vector(t, v) ==
    Matrix(Rows(t), Cols(t), LAMBDA x, y : v.at[x * Cols(t) + y])

\* ------------------------------------------------ as_matrix / from_matrix
\* line 127: np.zeros((length, n_features))
Zeros(r, c) == Matrix(r, c, LAMBDA x, y : 0)

\* lines 133, 145: data[r] = v
SetRow(m, r, v) ==
    [m EXCEPT !.at =
        [p \in DOMAIN m.at |-> IF p[1] = r THEN v.at[p[2]] ELSE m.at[p]]]

\* every row read as row 0
MatrixRowFirst(m, r) == Vector(Cols(m), LAMBDA k : m.at[<<0, k>>])

\* line 180: the row the iteration over the matrix yields at position r
MatrixRow(m, r) == Vector(Cols(m), LAMBDA k : m.at[<<r, k>>])

\* enumerate(vectorizables) without its start argument
EnumerateStartDefault == 1 - 1

\* line 137: enumerate(vectorizables, 1)
EnumerateStart == 1

\* the fraction of the rows filled before this one
ProgressFractionBefore(ii, len) == <<ii, len>>

\* line 144: float(i + 1) / length, as <<numerator, denominator>>
ProgressFraction(ii, len) == <<ii + 1, len>>

\* line 180: template.from_vector(row), for the row at position c
GeneratorYield(m, t, c) == from_vector(t, MatrixRow(m, c))

RECURSIVE GeneratorDrain(_, _, _)
\* line 184: list(vectorizables), from position c to the last row
GeneratorDrain(m, t, c) ==
    IF c >= Rows(m) THEN <<>>
    ELSE <<GeneratorYield(m, t, c)>> \o GeneratorDrain(m, t, c + 1)

\* the list is returned in both modes
DrainOnCallAlways(gen) == TRUE

\* lines 181-184: the generator is drained by the call unless as_generator
DrainOnCall(gen) == ~gen

\* the entities and matrix rows the callers pass in
EntitySeeds == {<<1, 1>>, <<2, -3>>, <<-1, 0>>}
Entity(n, d, seed) == Arange(n, d, seed[1], seed[2])
NoMatrix == Zeros(0, 0)

VecInit ==
    /\ \E n \in 1 .. MaxPoints, d \in 1 .. MaxDims, m \in 0 .. MaxItems :
       \E seeds \in [1 .. m -> EntitySeeds] :
        LET items == [k \in 1 .. m |-> Entity(n, d, seeds[k])]
        IN  \/ /\ scenario = "iter"
               /\ vectorizables = [kind |-> "iter", items |-> items]
               /\ \E L \in 0 .. MaxLength : length_arg = <<L>>
               /\ return_template \in BOOLEAN
               /\ matrix = NoMatrix
               /\ fm_template = <<>>
               /\ as_generator = FALSE
               /\ pc = "am_start"
            \/ /\ scenario = "list"
               /\ vectorizables = [kind |-> "list", items |-> items]
               /\ length_arg = <<>>
               /\ return_template = TRUE
               /\ matrix = NoMatrix
               /\ fm_template = <<>>
               /\ as_generator \in BOOLEAN
               /\ pc = "am_start"
            \/ /\ scenario = "matrix"
               /\ vectorizables = [kind |-> "list", items |-> <<>>]
               /\ length_arg = <<>>
               /\ return_template = FALSE
               /\ matrix = Matrix(m, n * d,
                    LAMBDA r, k : seeds[r + 1][1] + seeds[r + 1][2] * k)
               /\ \E tseed \in EntitySeeds : fm_template = <<Entity(n, d, tseed)>>
               /\ as_generator = FALSE
               /\ pc = "fm_call"
    /\ verbose \in BOOLEAN
    /\ rest = vectorizables.items
    /\ length = 0
    /\ template = <<>>
    /\ data = <<>>
    /\ signals = <<>>
    /\ amerr = None
    /\ amret = <<>>
    /\ cursor = 0
    /\ decoded = <<>>
    /\ out = <<>>
    /\ pulls = 0
    /\ i = 0

\* as_matrix, lines 116-134: take the template, allocate, fill row 0
AsMatrixStart ==
    /\ pc = "am_start"
    /\ LET items == vectorizables.items
           len == IF length_arg = <<>> THEN Len(items) ELSE length_arg[1]
       IN  IF items = <<>>
           THEN \* vectorizables[0] of an empty list, next() of an empty iterator
                /\ amerr' = IF length_arg = <<>> THEN "IndexError"
                                                  ELSE "StopIteration"
                /\ pc' = "done"
                /\ UNCHANGED <<rest, length, template, data, i>>
           ELSE /\ template' = <<Head(items)>>
                /\ rest' = Tail(items)
                /\ length' = len
                /\ IF len = 0
                   THEN \* data[0] of a matrix without rows
                        /\ data' = <<Zeros(len, n_parameters(Head(items)))>>
                        /\ amerr' = "IndexError"
                        /\ pc' = "done"
                        /\ UNCHANGED i
                   ELSE /\ data' = <<SetRow(Zeros(len, n_parameters(Head(items))),
                                            0, as_vector(Head(items)))>>
                        /\ i' = EnumerateStart
                        /\ pc' = "am_loop"
                        /\ UNCHANGED amerr
    /\ UNCHANGED <<scenario, vectorizables, length_arg, verbose, return_template,
                   signals, amret, matrix, fm_template, as_generator, cursor,
                   decoded, out, pulls>>
    /\ UNCHANGED dotvars

\* as_matrix, lines 137-145: the loop takes the next sample; it breaks once
\* i >= length, and otherwise reports progress and fills row i
AsMatrixLoop ==
    /\ pc = "am_loop"
    /\ rest # <<>>
    /\ rest' = Tail(rest)
    /\ IF i >= length
       THEN /\ pc' = "am_return"
            /\ UNCHANGED <<signals, data, i>>
       ELSE /\ signals' = IF verbose
                          THEN Append(signals, ProgressFraction(i, length))
                          ELSE signals
            /\ data' = <<SetRow(data[1], i, as_vector(Head(rest)))>>
            /\ i' = i + 1
            /\ UNCHANGED pc
    /\ UNCHANGED <<scenario, vectorizables, length_arg, verbose, return_template,
                   length, template, amerr, amret, matrix, fm_template,
                   as_generator, cursor, decoded, out, pulls>>
    /\ UNCHANGED dotvars

\* as_matrix, line 137: the source is exhausted, the loop ends
AsMatrixLoopEnd ==
    /\ pc = "am_loop"
    /\ rest = <<>>
    /\ pc' = "am_return"
    /\ UNCHANGED <<vecvars, dotvars, i>>

\* as_matrix, lines 147-150; the caller of the "list" chain then passes the
\* matrix and the template to from_matrix
AsMatrixReturn ==
    /\ pc = "am_return"
    /\ amret' = IF return_template THEN <<data[1], template[1]>> ELSE <<data[1]>>
    /\ IF scenario = "list"
       THEN /\ matrix' = data[1]
            /\ fm_template' = template
            /\ pc' = "fm_call"
       ELSE /\ pc' = "done"
            /\ UNCHANGED <<matrix, fm_template>>
    /\ UNCHANGED <<scenario, vectorizables, length_arg, verbose, return_template,
                   rest, length, template, data, signals, amerr, as_generator,
                   cursor, decoded, out, pulls>>
    /\ UNCHANGED <<dotvars, i>>

\* from_matrix, lines 180-184: build the generator expression, and return it
\* or the list of all it yields; the caller of the "matrix" chain then passes
\* the list to as_matrix
FromMatrixCall ==
    /\ pc = "fm_call"
    /\ IF DrainOnCall(as_generator)
       THEN /\ decoded' = GeneratorDrain(matrix, fm_template[1], 0)
            /\ out' = decoded'
            /\ cursor' = Rows(matrix)
            /\ IF scenario = "matrix"
               THEN /\ vectorizables' = [kind |-> "list", items |-> out']
                    /\ rest' = out'
                    /\ pc' = "am_start"
               ELSE /\ pc' = "done"
                    /\ UNCHANGED <<vectorizables, rest>>
       ELSE /\ pc' = "fm_pull"
            /\ UNCHANGED <<decoded, out, cursor, vectorizables, rest>>
    /\ UNCHANGED <<scenario, length_arg, verbose, return_template, length,
                   template, data, signals, amerr, amret, matrix, fm_template,
                   as_generator, pulls>>
    /\ UNCHANGED <<dotvars, i>>

\* from_matrix, line 180: the caller pulls the next element of the generator
GeneratorNext ==
    /\ pc = "fm_pull"
    /\ cursor < Rows(matrix)
    /\ LET e == GeneratorYield(matrix, fm_template[1], cursor)
       IN  /\ decoded' = Append(decoded, e)
           /\ out' = Append(out, e)
    /\ cursor' = cursor + 1
    /\ pulls' = pulls + 1
    /\ UNCHANGED <<scenario, vectorizables, length_arg, verbose, return_template,
                   rest, length, template, data, signals, amerr, amret, matrix,
                   fm_template, as_generator>>
    /\ UNCHANGED <<dotvars, i, pc>>

\* from_matrix, line 180: the rows are exhausted, the generator stops
GeneratorStop ==
    /\ pc = "fm_pull"
    /\ cursor >= Rows(matrix)
    /\ pc' = "done"
    /\ UNCHANGED <<vecvars, dotvars, i>>

VecNext ==
    \/ AsMatrixStart
    \/ AsMatrixLoop
    \/ AsMatrixLoopEnd
    \/ AsMatrixReturn
    \/ FromMatrixCall
    \/ GeneratorNext
    \/ GeneratorStop

\* ----------------------------------------------------------- specifications
\* the variables of the component a specification does not run
DotIdle ==
    /\ A = NoMatrix /\ B = NoMatrix /\ block_size = 1
    /\ la = NoMatrix /\ lb = NoMatrix /\ ra = NoMatrix /\ rb = NoMatrix
    /\ blocks = <<>> /\ lerr = None /\ lret = <<>> /\ rerr = None /\ rret = <<>>

VecIdle ==
    /\ scenario = "none"
    /\ vectorizables = [kind |-> "list", items |-> <<>>]
    /\ length_arg = <<>> /\ verbose = FALSE /\ return_template = FALSE
    /\ rest = <<>> /\ length = 0 /\ template = <<>> /\ data = <<>>
    /\ signals = <<>> /\ amerr = None /\ amret = <<>> /\ matrix = NoMatrix
    /\ fm_template = <<>> /\ as_generator = FALSE /\ cursor = 0
    /\ decoded = <<>> /\ out = <<>> /\ pulls = 0

Init == VecIdle /\ DotInit

Spec == Init /\ [][DotNext]_vars

InitVec == DotIdle /\ VecInit

SpecVec == InitVec /\ [][VecNext]_vars

\* ------------------------------------------------ claims on the multipliers
\* the shapes the multiply contract admits
Compatible == Cols(A) = Rows(B) /\ Cols(B) <= Cols(A)

LeftFinished == pc \in {"right_check", "right_loop", "done"}

\* the conventional, non-in-place product of the original operands
Product == Dot(A, B)

\* C1: for compatible shapes and every block size >= 1, dot_inplace_left
\* returns a matrix equal element for element to the conventional product of
\* the original A with B, and the leading n_small columns of a hold it.
C1_LeftEqualsProduct ==
    (LeftFinished /\ Compatible) =>
        /\ lerr = None
        /\ lret = <<Product>>
        /\ SliceCols(la, 0, Cols(B)) = Product
        \* A = [[1, 2], [3, 4], [5, 6]], B = [[1], [1]] gives [[3], [7], [11]]
        /\ (A = Arange(3, 2, 1, 1) /\ B = Arange(2, 1, 1, 0)) =>
                lret[1].at = (<<0, 0>> :> 3 @@ <<1, 0>> :> 7 @@ <<2, 0>> :> 11)

\* dot_inplace_left has returned from a run of several blocks, the last one
\* cut short by the end of the array, on operands with several columns
C1_Witness ==
    /\ LeftFinished
    /\ lret # <<>>
    /\ Rows(A) = 3 /\ block_size = 2 /\ Len(blocks) = 2
    /\ Cols(B) = 2
    /\ la # A

\* C2: for compatible shapes and every block size >= 1,
\* dot_inplace_right(B.T, A.T).T equals dot_inplace_left(A, B), each call run
\* on its own copy of the operands.
C2_TransposeAgreement ==
    (pc = "done" /\ Compatible) =>
        /\ lret # <<>>
        /\ rret # <<>>
        /\ Transpose(rret[1]) = lret[1]

\* both calls have returned, dot_inplace_right after several column blocks
C2_Witness ==
    /\ pc = "done"
    /\ lret # <<>> /\ rret # <<>>
    /\ Len(blocks) >= 2
    /\ Rows(ra) < Rows(rb)
    /\ rb # Transpose(A)

\* C3: both functions fail with a shape error whenever the inner dimensions
\* differ or n_small exceeds the contracted dimension, and in every failing
\* call both operands are unchanged and no block was stored.
C3_ShapeErrors ==
    /\ LeftFinished =>
        /\ (Cols(A) # Rows(B) \/ Cols(B) > Cols(A)) =>
                (lerr # None /\ lret = <<>>)
        /\ lerr # None => (la = A /\ lb = B)
        /\ (lerr # None /\ pc = "right_check") => blocks = <<>>
    /\ pc = "done" =>
        /\ (Cols(ra) # Rows(rb) \/ Rows(ra) > Rows(rb)) =>
                (rerr # None /\ rret = <<>>)
        /\ rerr # None => (ra = Transpose(B) /\ rb = Transpose(A)
                           /\ blocks = <<>>)

\* both calls have failed on n_small > k with matching inner dimensions
C3_Witness ==
    /\ pc = "done"
    /\ lerr = "capacity" /\ rerr = "capacity"
    /\ Rows(A) >= 2

\* C4: a multiply changes nothing but the result region of the big operand:
\* the small operand keeps its value, and so does every element of the big
\* operand beyond the leading n_small columns (left) or rows (right).
C4_Frame ==
    /\ lb = B
    /\ \A p \in DOMAIN la.at : p[2] >= Cols(B) => la.at[p] = A.at[p]
    /\ ra = Transpose(B)
    /\ \A p \in DOMAIN rb.at : p[1] >= Rows(ra) => rb.at[p] = A.at[<<p[2], p[1]>>]

\* both calls have returned, with n_small < k, so part of the big operand
\* lies outside the result region, and the big operands were written
C4_Witness ==
    /\ pc = "done"
    /\ lret # <<>> /\ rret # <<>>
    /\ Cols(B) < Cols(A)
    /\ la # A /\ rb # Transpose(A)

\* the index ranges stored so far are [0, h1), [h1, h2), ... : non-empty,
\* starting at multiples of block_size, disjoint and without a gap
Contiguous ==
    \A n \in 1 .. Len(blocks) :
        /\ blocks[n][1] = (n - 1) * block_size
        /\ blocks[n][1] < blocks[n][2]
        /\ n > 1 => blocks[n - 1][2] = blocks[n][1]

\* the end of the index range stored so far
Stored == IF blocks = <<>> THEN 0 ELSE blocks[Len(blocks)][2]

\* C10: the blocks are pairwise disjoint and together cover exactly
\* [0, n_big); after each iteration every row (column) of the big operand in
\* a block not yet processed has its original value and every row (column)
\* already processed holds the product in its leading n_small entries.
C10_BlockInvariant ==
    /\ pc \in {"left_loop", "right_check"} =>
        /\ Contiguous
        /\ Stored = Min(i, Rows(A))
        /\ (pc = "right_check" /\ lerr = None) => Stored = Rows(A)
        /\ \A p \in DOMAIN la.at :
            /\ p[1] >= Stored => la.at[p] = A.at[p]
            /\ (p[1] < Stored /\ p[2] < Cols(B)) => la.at[p] = Product.at[p]
    /\ (pc \in {"right_loop", "done"} /\ rerr = None) =>
        /\ Contiguous
        /\ Stored = Min(i, Rows(A))
        /\ pc = "done" => Stored = Rows(A)
        /\ \A p \in DOMAIN rb.at :
            /\ p[2] >= Stored => rb.at[p] = A.at[<<p[2], p[1]>>]
            /\ (p[2] < Stored /\ p[1] < Cols(B)) =>
                    rb.at[p] = Product.at[<<p[2], p[1]>>]

\* in the middle of a loop of three blocks: one block stored, two to go
C10_Witness ==
    /\ pc = "left_loop"
    /\ Rows(A) = 3 /\ block_size = 1 /\ Len(blocks) = 1
    /\ la # A

\* ----------------------------------------------- claims on the gateway
\* the entities as_matrix was given
Items == vectorizables.items

\* the items as_matrix's source has yielded
Consumed == Len(Items) - Len(rest)

\* the matrix of the given length whose leading rows are the encodings of
\* the first entities, in order, and whose other rows are zero
Stacked(items, len) ==
    Matrix(len, n_parameters(items[1]),
        LAMBDA r, k : IF r < Min(Len(items), len)
                      THEN items[r + 1].at[<<k \div Cols(items[r + 1]),
                                             k % Cols(items[r + 1])>>]
                      ELSE 0)

\* C5: for a lazy source of m >= 1 entities and a declared length L >= 1,
\* as_matrix returns without error a matrix of shape (L, n_parameters of the
\* first entity) whose row i is the encoding of the i-th entity for
\* i < min(m, L) and whose later rows are zero; items beyond the L-th have
\* no effect on it.
C5_LazyMatrix ==
    (scenario = "iter" /\ pc = "done" /\ Len(Items) >= 1 /\ length_arg[1] >= 1) =>
        /\ amerr = None
        /\ amret # <<>>
        /\ amret[1].shape = <<length_arg[1], n_parameters(Items[1])>>
        /\ \A p \in DOMAIN amret[1].at :
            amret[1].at[p] = IF p[1] < Min(Len(Items), length_arg[1])
                             THEN as_vector(Items[p[1] + 1]).at[p[2]]
                             ELSE 0
        /\ return_template => amret[2] = Items[1]

\* as_matrix has returned for a source that yields two entities of several
\* parameters under a declared length of four
C5_Witness ==
    /\ scenario = "iter" /\ pc = "done"
    /\ Len(Items) = 2 /\ length_arg = <<4>>
    /\ amret # <<>>
    /\ n_parameters(Items[1]) >= 2
    /\ Items[1] # Items[2]

\* C6: when a lazy source yields more items than the declared length L,
\* as_matrix pulls exactly L items from it and leaves all later items
\* unconsumed.
C6_PullsExactlyLength ==
    (scenario = "iter" /\ pc = "done" /\ amerr = None
        /\ length_arg[1] >= 1 /\ Len(Items) > length_arg[1]) =>
        /\ Consumed = length_arg[1]
        /\ rest = SubSeq(Items, length_arg[1] + 1, Len(Items))

\* C7 as stated: for every matrix M, as_matrix(from_matrix(M, template))
\* equals M, and for every homogeneous list of entities, from_matrix of what
\* as_matrix(entities, return_template=True) returns yields entities with
\* the original encodings in the same order.
C7_RoundTripEvery ==
    /\ (scenario = "matrix" /\ pc = "done") =>
        (amerr = None /\ amret = <<matrix>>)
    /\ (scenario = "list" /\ pc = "done") =>
        /\ amerr = None
        /\ Len(out) = Len(Items)
        /\ \A n \in 1 .. Len(out) : as_vector(out[n]) = as_vector(Items[n])

\* C7, amended: the same for every matrix of at least one row and every
\* list of at least one entity.
C7_RoundTrip ==
    /\ (scenario = "matrix" /\ pc = "done" /\ Rows(matrix) >= 1) =>
        (amerr = None /\ amret = <<matrix>>)
    /\ (scenario = "list" /\ pc = "done" /\ Len(Items) >= 1) =>
        /\ amerr = None
        /\ Len(out) = Len(Items)
        /\ \A n \in 1 .. Len(out) : as_vector(out[n]) = as_vector(Items[n])

\* a matrix of three rows, not all alike, went through from_matrix and
\* as_matrix
C7_Witness ==
    /\ scenario = "matrix" /\ pc = "done"
    /\ Rows(matrix) = 3 /\ Cols(matrix) >= 2
    /\ matrix.at[<<0, 0>>] # matrix.at[<<1, 0>>]
    /\ amret = <<matrix>>

FromMatrixCalled ==
    \/ scenario = "matrix" /\ pc # "fm_call"
    \/ scenario = "list" /\ pc \in {"fm_pull", "done"} /\ amerr = None

\* C8: from_matrix produces one entity per row, in row order, the i-th being
\* template.from_vector(row i); the eager list and the drained lazy sequence
\* hold the same entities; in lazy mode no row is decoded until its element
\* is pulled, each pull decoding exactly one row.
C8_FromMatrixOrder ==
    FromMatrixCalled =>
        /\ Len(out) <= Rows(matrix)
        /\ \A n \in 1 .. Len(out) :
            out[n] = Matrix(Rows(fm_template[1]), Cols(fm_template[1]),
                        LAMBDA x, y :
                            matrix.at[<<n - 1, x * Cols(fm_template[1]) + y>>])
        /\ (pc = "done" \/ ~as_generator) => Len(out) = Rows(matrix)
        /\ decoded = out
        /\ Len(decoded) = pulls + (IF as_generator THEN 0 ELSE Rows(matrix))
        /\ ~as_generator => pulls = 0

\* the lazy sequence over a matrix of three rows after one pull
C8_Witness ==
    /\ scenario = "list" /\ pc = "fm_pull" /\ as_generator
    /\ Rows(matrix) = 3 /\ pulls = 1 /\ Len(decoded) = 1

\* the rows as_matrix has filled
Filled == Min(Consumed, length)

\* C9: with progress reporting enabled as_matrix emits one signal for each
\* row it fills beyond row 0, the one for row i carrying (i + 1) / length, so
\* the fractions lie in [0, 1] and increase strictly; with reporting disabled
\* it emits none; the matrix returned is the same in both cases.
C9_Progress ==
    /\ Len(signals) = IF verbose /\ Filled >= 1 THEN Filled - 1 ELSE 0
    /\ \A k \in 1 .. Len(signals) :
        /\ signals[k] = <<k + 1, length>>
        /\ 0 <= signals[k][1] /\ 0 < signals[k][2]
        /\ signals[k][1] <= signals[k][2]
        /\ k > 1 => signals[k - 1][1] * signals[k][2]
                        < signals[k][1] * signals[k - 1][2]
    /\ amret # <<>> => amret[1] = Stacked(Items, length)

\* as_matrix has returned after reporting the progress of two rows
C9_Witness ==
    /\ scenario = "iter" /\ pc = "done" /\ verbose
    /\ length = 4 /\ signals = <<<<2, 4>>, <<3, 4>>>>
    /\ amret # <<>>

=============================================================================
